---- MODULE Spec2Model ----
(***************************************************************************)
(* games/Server.py: BrotliGzipHTTPRequestHandler, a subclass of            *)
(* http.server.SimpleHTTPRequestHandler that overrides end_headers() to    *)
(* add Content-Encoding / Content-Type headers by the suffix of self.path, *)
(* served by a socketserver.TCPServer.                                     *)
(*                                                                         *)
(* A request is handled by one handler object (protocol_version is         *)
(* HTTP/1.0, so a connection carries one request).  The inherited          *)
(* component queues the status line and its own headers, then calls        *)
(* self.end_headers() (the override), then writes the body.  Strings are   *)
(* sequences of one-character strings, so that str.endswith is computed    *)
(* character by character.  Requests are those answered with an HTTP/1.x   *)
(* response head (section 6 of the specification, "Wire protocol").        *)
(***************************************************************************)
EXTENDS Integers, Sequences, FiniteSets, TLC

VARIABLES
    pc,         \* per handler: position in handle_one_request
    hasPath,    \* per handler: hasattr(self, "path")
    path,       \* per handler: self.path (the request target as received)
    buffer,     \* per handler: self._headers_buffer (status line first)
    queued,     \* per handler: the buffer as it was when end_headers was entered
    pending,    \* per handler: the body the inherited component writes after end_headers
    wire,       \* per handler: response head written to the client
    body,       \* per handler: body written to the client
    finalized   \* per handler: number of super().end_headers() calls

vars == <<pc, hasPath, path, buffer, queued, pending, wire, body, finalized>>

----------------------------------------------------------------------------
(* Bounds *)

MaxExt == 3
NumHandlers == 2

Handlers == 1..NumHandlers

----------------------------------------------------------------------------
(* The string literals of end_headers *)

DotBr == <<".", "b", "r">>
JsBr == <<".", "j", "s", ".", "b", "r">>
WasmBr == <<".", "w", "a", "s", "m", ".", "b", "r">>
DataBr == <<".", "d", "a", "t", "a", ".", "b", "r">>
JsonBr == <<".", "j", "s", "o", "n", ".", "b", "r">>
DotGz == <<".", "g", "z">>
JsGz == <<".", "j", "s", ".", "g", "z">>
WasmGz == <<".", "w", "a", "s", "m", ".", "g", "z">>
DataGz == <<".", "d", "a", "t", "a", ".", "g", "z">>
JsonGz == <<".", "j", "s", "o", "n", ".", "g", "z">>

----------------------------------------------------------------------------
(* Request targets *)

Pieces ==
    { <<"a">>, <<"j", "s">>,
      <<".", "j", "s">>, <<".", "w", "a", "s", "m">>,
      <<".", "d", "a", "t", "a">>, <<".", "j", "s", "o", "n">>,
      <<".", "b", "r">>, <<".", "g", "z">>,
      <<".", "B", "R">>, <<".", "G", "z">> }

Queries == { <<>>, <<"?", "v", "=", "3">> }

RECURSIVE Names(_)
Names(n) ==
    IF n = 0 THEN { <<>> }
    ELSE LET S == Names(n - 1) IN S \cup { s \o x : s \in S, x \in Pieces }

Paths == { <<"/">> \o s \o q : s \in Names(MaxExt), q \in Queries }

ThreadPaths ==
    { <<"/", "a">>,
      <<"/", "a", ".", "j", "s", ".", "b", "r">>,
      <<"/", "a", ".", "g", "z">> }

GuessedTypes == { "application/octet-stream", "application/gzip", "text/javascript" }

----------------------------------------------------------------------------
(* str.endswith and str.lower *)

EndsWithNoCase(s, suffix) ==
    LET Lower(c) == IF c = "B" THEN "b" ELSE IF c = "R" THEN "r"
                    ELSE IF c = "G" THEN "g" ELSE IF c = "Z" THEN "z" ELSE c
        l == [i \in DOMAIN s |-> Lower(s[i])]
    IN  /\ Len(l) >= Len(suffix)
        /\ SubSeq(l, Len(l) - Len(suffix) + 1, Len(l)) = suffix

EndsWith(s, suffix) ==
    /\ Len(s) >= Len(suffix)
    /\ SubSeq(s, Len(s) - Len(suffix) + 1, Len(s)) = suffix

----------------------------------------------------------------------------
(* The inherited component *)

\* BaseHTTPRequestHandler.send_header: append one header line to the buffer
\* (request_version is not "HTTP/0.9": the response has a head).
send_header(buf, keyword, value) == Append(buf, <<keyword, value>>)

\* BaseHTTPRequestHandler.send_response: status line, Server and Date.
send_response(code) ==
    << <<"HTTP/1.0", code>>, <<"Server", "SimpleHTTP">>, <<"Date", "now">> >>

\* BaseHTTPRequestHandler.send_error, up to its call of self.end_headers().
send_error(code) ==
    send_header(
        send_header(
            send_header(send_response(code), "Connection", "close"),
            "Content-Type", "text/html;charset=utf-8"),
        "Content-Length", "len")

\* SimpleHTTPRequestHandler.translate_path: the query and the fragment are dropped.
ResourcePath(target) ==
    LET cut == { i \in DOMAIN target : target[i] \in {"?", "#"} }
    IN  IF cut = {} THEN target
        ELSE SubSeq(target, 1, (CHOOSE i \in cut : \A j \in cut : i <= j) - 1)

----------------------------------------------------------------------------
(* BrotliGzipHTTPRequestHandler.end_headers, lines 9-30 *)

BrotliTypeNoDot(buf, p) ==
    IF EndsWith(p, Tail(JsBr)) THEN
        send_header(buf, "Content-Type", "application/javascript")
    ELSE IF EndsWith(p, Tail(WasmBr)) THEN
        send_header(buf, "Content-Type", "application/wasm")
    ELSE IF EndsWith(p, Tail(DataBr)) THEN
        send_header(buf, "Content-Type", "application/octet-stream")
    ELSE IF EndsWith(p, Tail(JsonBr)) THEN
        send_header(buf, "Content-Type", "application/json")
    ELSE buf

BrotliType(buf, p) ==
    IF EndsWith(p, JsBr) THEN
        send_header(buf, "Content-Type", "application/javascript")
    ELSE IF EndsWith(p, WasmBr) THEN
        send_header(buf, "Content-Type", "application/wasm")
    ELSE IF EndsWith(p, DataBr) THEN
        send_header(buf, "Content-Type", "application/octet-stream")
    ELSE IF EndsWith(p, JsonBr) THEN
        send_header(buf, "Content-Type", "application/json")
    ELSE buf

GzipType(buf, p) ==
    IF EndsWith(p, JsGz) THEN
        send_header(buf, "Content-Type", "application/javascript")
    ELSE IF EndsWith(p, WasmGz) THEN
        send_header(buf, "Content-Type", "application/wasm")
    ELSE IF EndsWith(p, DataGz) THEN
        send_header(buf, "Content-Type", "application/octet-stream")
    ELSE IF EndsWith(p, JsonGz) THEN
        send_header(buf, "Content-Type", "application/json")
    ELSE buf

GzipBranchAsBrotli(buf, p) ==
    GzipType(send_header(buf, "Content-Encoding", "br"), p)

GzipBranch(buf, p) ==
    GzipType(send_header(buf, "Content-Encoding", "gzip"), p)

BrotliBranch(buf, p) ==
    BrotliType(send_header(buf, "Content-Encoding", "br"), p)

DecorateOnlyOk(buf, p) ==
    IF buf[1][2] # "200" THEN buf
    ELSE IF EndsWith(p, DotBr) THEN BrotliBranch(buf, p)
    ELSE IF EndsWith(p, DotGz) THEN GzipBranch(buf, p)
    ELSE buf

Decorate(buf, p) ==
    IF EndsWith(p, DotBr) THEN BrotliBranch(buf, p)
    ELSE IF EndsWith(p, DotGz) THEN GzipBranch(buf, p)
    ELSE buf

\* self.path as read by end_headers: an attribute of the handler itself.
PathOfFirst(h) == path[1]

PathOf(h) == path[h]

----------------------------------------------------------------------------
(* State after construction: the server listens, no request is in hand. *)

Init ==
    /\ pc = [h \in Handlers |-> "idle"]
    /\ hasPath = [h \in Handlers |-> FALSE]
    /\ path = [h \in Handlers |-> <<>>]
    /\ buffer = [h \in Handlers |-> <<>>]
    /\ queued = [h \in Handlers |-> <<>>]
    /\ pending = [h \in Handlers |-> "none"]
    /\ wire = [h \in Handlers |-> <<>>]
    /\ body = [h \in Handlers |-> "none"]
    /\ finalized = [h \in Handlers |-> 0]

\* The inherited component has queued `head` and calls self.end_headers().
Enter(h, known, p, head, b) ==
    /\ pc[h] = "idle"
    /\ pc' = [pc EXCEPT ![h] = "end_headers"]
    /\ hasPath' = [hasPath EXCEPT ![h] = known]
    /\ path' = [path EXCEPT ![h] = p]
    /\ buffer' = [buffer EXCEPT ![h] = head]
    /\ queued' = [queued EXCEPT ![h] = head]
    /\ pending' = [pending EXCEPT ![h] = b]
    /\ UNCHANGED <<wire, body, finalized>>

\* handle_one_request: the request line is longer than 65536 bytes; 414 is
\* sent before parse_request has assigned self.path.
RejectRequestLine(h) ==
    Enter(h, FALSE, <<>>, send_error("414"), "error")

\* send_head: the file exists and is served.
ServeFile(h, p, ctype) ==
    Enter(h, TRUE, p,
          send_header(
              send_header(
                  send_header(send_response("200"), "Content-type", ctype),
                  "Content-Length", "len"),
              "Last-Modified", "mtime"),
          "file")

\* send_head: If-Modified-Since matched.
NotModified(h, p) ==
    Enter(h, TRUE, p, send_response("304"), "none")

\* send_head: the path is a directory and does not end with "/".
RedirectDirectory(h, p) ==
    /\ ~EndsWith(ResourcePath(p), <<"/">>)
    /\ Enter(h, TRUE, p,
             send_header(
                 send_header(send_response("301"), "Location", "slash"),
                 "Content-Length", "0"),
             "none")

\* send_head: the file cannot be opened (404); handle_one_request: no do_<command> (501).
ErrorResponse(h, p, code) ==
    Enter(h, TRUE, p, send_error(code), "error")

\* BrotliGzipHTTPRequestHandler.end_headers, the whole method.
end_headers(h) ==
    /\ pc[h] = "end_headers"
    /\ IF ~hasPath[h]
       THEN \* line 9: self.path raises AttributeError
            /\ pc' = [pc EXCEPT ![h] = "raised"]
            /\ UNCHANGED <<buffer, wire, finalized>>
       ELSE LET decorated == Decorate(buffer[h], PathOf(h))
            IN  \* line 32: super().end_headers() writes the buffer and empties it
                /\ wire' = [wire EXCEPT ![h] = wire[h] \o decorated]
                /\ buffer' = [buffer EXCEPT ![h] = <<>>]
                /\ finalized' = [finalized EXCEPT ![h] = finalized[h] + 1]
                /\ pc' = [pc EXCEPT ![h] = "body"]
    /\ UNCHANGED <<hasPath, path, queued, pending, body>>

\* After end_headers returned: send_error writes the error page, do_GET copies the file.
SendBody(h) ==
    /\ pc[h] = "body"
    /\ body' = [body EXCEPT ![h] = pending[h]]
    /\ pc' = [pc EXCEPT ![h] = "done"]
    /\ UNCHANGED <<hasPath, path, buffer, queued, pending, wire, finalized>>

\* socketserver: the exception leaves handle(); handle_error prints the
\* traceback and shutdown_request closes the connection. Nothing was written.
HandleError(h) ==
    /\ pc[h] = "raised"
    /\ pc' = [pc EXCEPT ![h] = "aborted"]
    /\ UNCHANGED <<hasPath, path, buffer, queued, pending, wire, body, finalized>>

\* The connection is closed and the handler object is dropped.
Finish(h) ==
    /\ pc[h] \in {"done", "aborted"}
    /\ pc' = [pc EXCEPT ![h] = "idle"]
    /\ hasPath' = [hasPath EXCEPT ![h] = FALSE]
    /\ path' = [path EXCEPT ![h] = <<>>]
    /\ buffer' = [buffer EXCEPT ![h] = <<>>]
    /\ queued' = [queued EXCEPT ![h] = <<>>]
    /\ pending' = [pending EXCEPT ![h] = "none"]
    /\ wire' = [wire EXCEPT ![h] = <<>>]
    /\ body' = [body EXCEPT ![h] = "none"]
    /\ finalized' = [finalized EXCEPT ![h] = 0]

\* socketserver.TCPServer (line 34): one request at a time.
Next ==
    \/ RejectRequestLine(1)
    \/ pc[1] = "idle" /\ \E p \in Paths, t \in GuessedTypes : ServeFile(1, p, t)
    \/ pc[1] = "idle" /\ \E p \in Paths : NotModified(1, p)
    \/ pc[1] = "idle" /\ \E p \in Paths : RedirectDirectory(1, p)
    \/ pc[1] = "idle" /\ \E p \in Paths, c \in {"404", "501"} : ErrorResponse(1, p, c)
    \/ end_headers(1)
    \/ SendBody(1)
    \/ HandleError(1)
    \/ Finish(1)

Spec == Init /\ [][Next]_vars

\* The same handler class under a threading or pooled server.
NextThreaded ==
    \E h \in Handlers :
        \/ RejectRequestLine(h)
        \/ \E p \in ThreadPaths : ServeFile(h, p, "application/octet-stream")
        \/ \E p \in ThreadPaths : NotModified(h, p)
        \/ \E p \in ThreadPaths : ErrorResponse(h, p, "404")
        \/ end_headers(h)
        \/ SendBody(h)
        \/ HandleError(h)
        \/ Finish(h)

SpecThreaded == Init /\ [][NextThreaded]_vars

----------------------------------------------------------------------------
(* Vocabulary of the properties *)

HasSuffix(s, suffix) ==
    \E k \in 0..Len(s) :
        /\ Len(s) - k = Len(suffix)
        /\ \A i \in 1..Len(suffix) : s[k + i] = suffix[i]

Range(s) == { s[i] : i \in DOMAIN s }

\* Header names are case-insensitive on the wire.
ContentTypeNames == { "Content-Type", "Content-type", "content-type" }
ContentEncodingNames == { "Content-Encoding", "Content-encoding", "content-encoding" }

Entries(head, names) == { i \in DOMAIN head : head[i][1] \in names }

ValuesOf(head, names) == { head[i][2] : i \in Entries(head, names) }

\* The response head has been written: end_headers has returned normally.
Sent(h) == pc[h] \in {"body", "done"}

\* The status code the inherited component chose for the response.
StatusOf(h) == queued[h][1][2]

\* What the response head carries beyond what the inherited component queued.
Inserted(h) == SubSeq(wire[h], Len(queued[h]) + 1, Len(wire[h]))

KeepsQueued(h) ==
    /\ Len(wire[h]) >= Len(queued[h])
    /\ SubSeq(wire[h], 1, Len(queued[h])) = queued[h]

S_br == <<".", "b", "r">>
S_gz == <<".", "g", "z">>

TypeTable ==
    { <<<<".", "j", "s">>, "application/javascript">>,
      <<<<".", "w", "a", "s", "m">>, "application/wasm">>,
      <<<<".", "d", "a", "t", "a">>, "application/octet-stream">>,
      <<<<".", "j", "s", "o", "n">>, "application/json">> }

\* The path ends with one of .js/.wasm/.data/.json followed by the extension enc.
HasTableSuffix(p, enc) == \E e \in TypeTable : HasSuffix(p, e[1] \o enc)

----------------------------------------------------------------------------
(* C1: a response for a path ending in .br carries Content-Encoding: br, one
   for a path ending in .gz carries Content-Encoding: gzip, and end_headers
   inserts at most one Content-Encoding header per call. *)
C1_EncodingBySuffix ==
    \A h \in Handlers :
        Sent(h) =>
            /\ HasSuffix(path[h], S_br) => <<"Content-Encoding", "br">> \in Range(wire[h])
            /\ HasSuffix(path[h], S_gz) => <<"Content-Encoding", "gzip">> \in Range(wire[h])
            /\ Cardinality(Entries(Inserted(h), ContentEncodingNames)) <= 1
            /\ Cardinality(Entries(wire[h], ContentEncodingNames)) <= 1

C1_Witness ==
    \E h \in Handlers :
        /\ Sent(h)
        /\ HasSuffix(path[h], <<".", "w", "a", "s", "m", ".", "g", "z">>)
        /\ ValuesOf(wire[h], ContentEncodingNames) = {"gzip"}

(* C2: for a path ending in .X.br or .X.gz, X in js/wasm/data/json, the mapped
   value is the only Content-Type the response carries, also when the
   inherited component queued a Content-Type of its own. *)
C2_OnlyMappedContentType ==
    \A h \in Handlers :
        Sent(h) =>
            \A e \in TypeTable, enc \in {S_br, S_gz} :
                HasSuffix(path[h], e[1] \o enc) =>
                    /\ ValuesOf(wire[h], ContentTypeNames) = {e[2]}
                    /\ Cardinality(Entries(wire[h], ContentTypeNames)) = 1

(* C3: for a path ending in neither .br nor .gz (compared case-sensitively),
   end_headers inserts nothing: the head written is the head the inherited
   component queued. *)
C3_NoSuffixNoInsertion ==
    \A h \in Handlers :
        (Sent(h) /\ ~HasSuffix(path[h], S_br) /\ ~HasSuffix(path[h], S_gz)) =>
            wire[h] = queued[h]

C3_Witness ==
    \E h \in Handlers :
        /\ Sent(h)
        /\ HasSuffix(path[h], <<".", "j", "s", ".", "B", "R">>)
        /\ StatusOf(h) = "200"
        /\ wire[h] = queued[h]

(* C4: for a path ending in .br (resp. .gz) without .js/.wasm/.data/.json
   right before it, end_headers inserts exactly one header, the
   Content-Encoding of the final extension, and no Content-Type. *)
C4_EncodingOnly ==
    \A h \in Handlers :
        Sent(h) =>
            /\ (HasSuffix(path[h], S_br) /\ ~HasTableSuffix(path[h], S_br)) =>
                   /\ KeepsQueued(h)
                   /\ Inserted(h) = << <<"Content-Encoding", "br">> >>
            /\ (HasSuffix(path[h], S_gz) /\ ~HasTableSuffix(path[h], S_gz)) =>
                   /\ KeepsQueued(h)
                   /\ Inserted(h) = << <<"Content-Encoding", "gzip">> >>

C4_Witness ==
    \E h \in Handlers :
        /\ Sent(h)
        /\ HasSuffix(path[h], <<"a", "j", "s", ".", "b", "r">>)
        /\ Inserted(h) = << <<"Content-Encoding", "br">> >>

(* C5: every invocation of end_headers performs super().end_headers() exactly
   once, after the insertion: what was inserted is in the head written and
   nothing stays queued behind it. *)
C5_FinalizedOnceAfterInsertion ==
    \A h \in Handlers :
        pc[h] \in {"body", "done", "raised", "aborted"} =>
            /\ finalized[h] = 1
            /\ buffer[h] = <<>>
            /\ KeepsQueued(h)

(* C6: no invocation of end_headers raises, also not the one made while the
   error response for a rejected request line is sent. *)
C6_NeverRaises ==
    \A h \in Handlers : pc[h] # "raised"

(* C7: the status and the body that reach the client are the ones the
   inherited component alone produces, and the head it queued is kept as a
   prefix of the head written. *)
C7_StatusAndBodyUnchanged ==
    \A h \in Handlers :
        pc[h] \in {"done", "aborted"} =>
            /\ KeepsQueued(h)
            /\ wire[h] # <<>> /\ wire[h][1] = queued[h][1]
            /\ body[h] = pending[h]

(* C8: the inserted headers are a function of the request's own path: two
   requests in hand with the same path have the same inserted headers, and a
   handler's header collection holds only what its own request put there. *)
C8_PathAloneDecides ==
    /\ \A h1, h2 \in Handlers :
           (Sent(h1) /\ Sent(h2) /\ path[h1] = path[h2]) => Inserted(h1) = Inserted(h2)
    /\ \A h \in Handlers :
           /\ pc[h] = "end_headers" => (buffer[h] = queued[h] /\ wire[h] = <<>>)
           /\ Sent(h) => (KeepsQueued(h) /\ buffer[h] = <<>>)
           /\ pc[h] = "idle" => (buffer[h] = <<>> /\ wire[h] = <<>>)

C8_Witness ==
    \E h1, h2 \in Handlers :
        /\ h1 # h2
        /\ Sent(h1) /\ Sent(h2)
        /\ path[h1] = path[h2]
        /\ queued[h1] # queued[h2]
        /\ Len(Inserted(h1)) = 2
        /\ Inserted(h1) = Inserted(h2)

(* C9: when the target resolves to a file whose name ends in .js.br and the
   file is served, the response carries Content-Encoding: br and
   Content-Type: application/javascript, also with a query string. *)
C9_ResourcePathDecides ==
    \A h \in Handlers :
        (/\ Sent(h)
         /\ StatusOf(h) = "200"
         /\ HasSuffix(ResourcePath(path[h]), <<".", "j", "s", ".", "b", "r">>)) =>
            /\ <<"Content-Encoding", "br">> \in Range(wire[h])
            /\ <<"Content-Type", "application/javascript">> \in Range(wire[h])

(* C10: a response with an error or non-content status (404, 501, 304, 301)
   for a path ending in .br or .gz carries the Content-Encoding header, and
   the Content-Type of the table when the sub-suffix matches. *)
C10_InsertedWhateverTheStatus ==
    \A h \in Handlers :
        (Sent(h) /\ StatusOf(h) \in {"404", "501", "304", "301"}) =>
            /\ HasSuffix(path[h], S_br) => "br" \in ValuesOf(Inserted(h), ContentEncodingNames)
            /\ HasSuffix(path[h], S_gz) => "gzip" \in ValuesOf(Inserted(h), ContentEncodingNames)
            /\ \A e \in TypeTable, enc \in {S_br, S_gz} :
                   HasSuffix(path[h], e[1] \o enc) =>
                       e[2] \in ValuesOf(Inserted(h), ContentTypeNames)

C10_Witness ==
    \E h \in Handlers :
        /\ pc[h] = "done"
        /\ StatusOf(h) = "404"
        /\ body[h] = "error"
        /\ HasSuffix(path[h], <<".", "j", "s", "o", "n", ".", "b", "r">>)
        /\ <<"Content-Encoding", "br">> \in Range(wire[h])

====
